---- MODULE Spec2Model ----
(***************************************************************************)
(* Model of the three root finders of the repository                       *)
(*   src/bisection.py      BisectionRootFinder                             *)
(*   src/newtonRaphson.py  NewtonRaphsonRootFinder                         *)
(*   src/secant.py         SecantRaphsonRootFinder                         *)
(* Each finder scans a range in fixed steps for sign changes               *)
(* (findIntervals), refines every bracket (_findRootInInterval) and        *)
(* collects the estimates (findRoots).                                     *)
(*                                                                         *)
(* Numbers: a Python float is modelled by an exact rational <<n, d>> in    *)
(* lowest terms with d > 0, so the arithmetic of the model is the real     *)
(* arithmetic the algorithms are written in; rounding of IEEE doubles is   *)
(* not modelled.  Division by zero is modelled as Python does it: it       *)
(* raises ZeroDivisionError (pc = "raised").                               *)
(* The target function func (and Newton's derivativeFunc) is supplied by   *)
(* the caller; the model draws it from the polynomials                     *)
(* c0 + c1*x + c2*x^2 with small integer coefficients.                     *)
(* time.perf_counter() and the field `time` of the estimates have no       *)
(* effect on control flow and are left out.                                *)
(***************************************************************************)
EXTENDS Integers, Sequences, FiniteSets, TLC

(***************************************************************************)
(* Bounds of the model.                                                    *)
(***************************************************************************)
\* the most steps of a scan
MaxSteps == 4
\* the most iterations of a bisection
MaxIter == 3
\* the most iterations of a Newton-Raphson or secant refinement, whose
\* iterates have numerators and denominators that grow with every iteration
MaxOpenIter == 2
\* the largest coefficient of func
CoefMax == 2

(***************************************************************************)
(* Exact rational arithmetic.                                              *)
(***************************************************************************)
AbsInt(n) == IF n < 0 THEN -n ELSE n

RECURSIVE GCD(_, _)
GCD(m, n) == IF n = 0 THEN m ELSE GCD(n, m % n)

R(n, d) ==
    LET g == GCD(AbsInt(n), AbsInt(d))
        s == IF d < 0 THEN -1 ELSE 1
    IN  <<(s * n) \div g, (s * d) \div g>>

Zero == <<0, 1>>

IsZero(x) == x[1] = 0

RNeg(x) == <<-x[1], x[2]>>

RAdd(x, y) ==
    LET g == GCD(x[2], y[2])
        l == (x[2] \div g) * y[2]
    IN  R(x[1] * (l \div x[2]) + y[1] * (l \div y[2]), l)

RSub(x, y) == RAdd(x, RNeg(y))

RMul(x, y) ==
    LET p == R(x[1], y[2])
        q == R(y[1], x[2])
    IN  <<p[1] * q[1], p[2] * q[2]>>

\* x / y for y # 0 (Python raises ZeroDivisionError for y = 0: see the callers)
RDiv(x, y) == RMul(x, R(y[2], y[1]))

RLt(x, y) ==
    LET g == GCD(x[2], y[2])
    IN  x[1] * (y[2] \div g) < y[1] * (x[2] \div g)

RLe(x, y) == ~RLt(y, x)

RAbs(x) == <<AbsInt(x[1]), x[2]>>

RInt(n) == <<n, 1>>


(***************************************************************************)
(* The caller's inputs.                                                    *)
(***************************************************************************)
\* func / derivativeFunc: the polynomial <<c0, c1, c2>> evaluated at x
Func(f, x) ==
    RAdd(RInt(f[1]), RMul(x, RAdd(RInt(f[2]), RMul(RInt(f[3]), x))))

Coefs == (-CoefMax)..CoefMax

QuadCoefs == {-1, 0, 1}

FuncSet == {<<c0, c1, c2>> : c0 \in Coefs, c1 \in Coefs, c2 \in QuadCoefs}

\* the derivative of the polynomial f
Derivative(f) == <<f[2], 2 * f[3], 0>>

\* the derivatives a caller passes to Newton-Raphson: the true one, or f' = 0
DerivativeSet(f) == {Derivative(f), <<0, 0, 0>>}

Methods == {"bisection", "newtonRaphson", "secant"}

Calls == {"findIntervals", "findRootInInterval", "findRoots"}

StartSet == {RInt(-2), RInt(-1)}

StepSet == {R(1, 2), RInt(1), RInt(2)}

ToleranceSet == {R(1, 4), R(3, 8), RInt(1)}

\* the intervals a caller passes to _findRootInInterval directly
IntervalSet ==
    {[low |-> RInt(l), high |-> RAdd(RInt(l), w)] :
        l \in (-2)..1, w \in StepSet}

\* the configurations of __init__; a call is given only the fields it reads to
\* vary, the others keep one value
IterationsSet(m) ==
    IF m = "bisection" THEN 1..MaxIter ELSE 1..MaxOpenIter

ConfigSet(c, m) ==
    [intervalStartPoint :
        IF c = "findRootInInterval" THEN {RInt(-2)} ELSE StartSet,
     intervalStepSize :
        IF c = "findRootInInterval" THEN {RInt(1)} ELSE StepSet,
     intervalMaxSteps :
        IF c = "findRootInInterval" THEN {MaxSteps} ELSE 0..MaxSteps,
     rootTolerance :
        IF c = "findIntervals" THEN {R(1, 4)} ELSE ToleranceSet,
     rootFindingMaximumIterations :
        IF c = "findIntervals" THEN {MaxIter} ELSE IterationsSet(m)]

\* Optional values: None is the empty sequence, a value v is <<v>>
None == <<>>

Some(v) == <<v>>

VARIABLES
    method,     \* which finder: the class the call is made on
    call,       \* the method the caller calls
    func,       \* the target function
    derivativeFunc, \* Newton-Raphson's second callable
    cfg,        \* the finder's fields, set by __init__
    arg,        \* the interval of a direct _findRootInInterval call
    pc,         \* the position of the call
    value,      \* findIntervals: value
    intervals,  \* findIntervals: intervals; findRoots: intervals
    n,          \* findIntervals: iterations of the for loop done
    evals,      \* how many times func has been called
    scanCalls,  \* how many times findIntervals has been called
    roots,      \* findRoots: roots / results
    idx,        \* findRoots: position of the for loop in intervals
    interval,   \* _findRootInInterval: interval
    a, b,       \* bisection: a, b
    x0, x1, x2, \* bisection: x1; Newton: x0, x1; secant: x0, x1, x2
    i,          \* _findRootInInterval: i of the for loop
    root,       \* what _findRootInInterval returned
    steps,      \* history: the step magnitude each iteration tested
    fates,      \* history: what each refinement of findRoots returned
    retval      \* what the call returned

vars == <<method, call, func, derivativeFunc, cfg, arg, pc, value, intervals,
          n, evals, scanCalls, roots, idx, interval, a, b, x0, x1, x2, i,
          root, steps, fates, retval>>

inputs == <<method, call, func, derivativeFunc, cfg, arg>>

scanVars == <<value, intervals, n>>

refineVars == <<interval, a, b, x0, x1, x2, i, root, steps>>

NoInterval == [low |-> Zero, high |-> Zero]

Init ==
    /\ method \in Methods
    /\ call \in Calls
    /\ func \in FuncSet
    /\ derivativeFunc \in
          IF method = "newtonRaphson"
          THEN DerivativeSet(func)
          ELSE {<<0, 0, 0>>}
    /\ cfg \in ConfigSet(call, method)
    /\ arg \in IF call = "findRootInInterval" THEN IntervalSet ELSE {NoInterval}
    /\ pc = "idle"
    /\ value = Zero
    /\ intervals = <<>>
    /\ n = 0
    /\ evals = 0
    /\ scanCalls = 0
    /\ roots = <<>>
    /\ idx = 0
    /\ interval = NoInterval
    /\ a = Zero /\ b = Zero
    /\ x0 = Zero /\ x1 = Zero /\ x2 = Zero
    /\ i = 0
    /\ root = None
    /\ steps = <<>>
    /\ fates = <<>>
    /\ retval = [tag |-> "pending", val |-> <<>>]

(***************************************************************************)
(* findIntervals: the scan (the same code in the three files).             *)
(***************************************************************************)
\* the call of findIntervals, by the caller or by findRoots: value, intervals
FindIntervalsEnter ==
    /\ pc = "idle"
    /\ call \in {"findIntervals", "findRoots"}
    /\ value' = cfg.intervalStartPoint
    /\ intervals' = <<>>
    /\ n' = 0
    /\ scanCalls' = scanCalls + 1
    /\ pc' = "scan"
    /\ UNCHANGED <<inputs, fates, evals, roots, idx, refineVars, retval>>

\* mutant of SignChange: a product of exactly 0 also counts
SignChangeOrZero(lowResult, highResult) ==
    RLe(RMul(lowResult, highResult), Zero)

\* the test of the scan: lowResult * highResult < 0
SignChange(lowResult, highResult) == RLt(RMul(lowResult, highResult), Zero)

\* how many calls of func one iteration of the scan makes
ScanEvalsPerStep == 2

\* mutant of ScanStep: highResult is kept as the next iteration's lowResult,
\* so that every sample point is evaluated once
ScanStepReusing ==
    /\ pc = "scan"
    /\ n < cfg.intervalMaxSteps
    /\ LET nextValue == RAdd(value, cfg.intervalStepSize)
           lowResult == Func(func, value)
           highResult == Func(func, nextValue)
       IN  /\ intervals' =
                 IF SignChange(lowResult, highResult)
                 THEN Append(intervals, [low |-> value, high |-> nextValue])
                 ELSE intervals
           /\ value' = nextValue
    /\ n' = n + 1
    /\ evals' = evals + (IF n = 0 THEN ScanEvalsPerStep ELSE 1)
    /\ UNCHANGED <<inputs, fates, pc, scanCalls, roots, idx, refineVars,
                   retval>>

\* one iteration of `for _ in range(self.intervalMaxSteps)`
ScanStep ==
    /\ pc = "scan"
    /\ n < cfg.intervalMaxSteps
    /\ LET nextValue == RAdd(value, cfg.intervalStepSize)
           lowResult == Func(func, value)
           highResult == Func(func, nextValue)
       IN  /\ intervals' =
                 IF SignChange(lowResult, highResult)
                 THEN Append(intervals, [low |-> value, high |-> nextValue])
                 ELSE intervals
           /\ value' = nextValue
    /\ n' = n + 1
    /\ evals' = evals + ScanEvalsPerStep
    /\ UNCHANGED <<inputs, fates, pc, scanCalls, roots, idx, refineVars,
                   retval>>

\* `return intervals` to the caller
FindIntervalsReturn ==
    /\ pc = "scan"
    /\ n >= cfg.intervalMaxSteps
    /\ call = "findIntervals"
    /\ retval' = [tag |-> "list", val |-> intervals]
    /\ pc' = "done"
    /\ UNCHANGED <<inputs, fates, scanVars, evals, scanCalls, roots, idx,
                   refineVars>>


(***************************************************************************)
(* findRoots after the scan.                                               *)
(***************************************************************************)
\* `if not intervals: return None`
FindRootsNoIntervals ==
    /\ pc = "scan"
    /\ n >= cfg.intervalMaxSteps
    /\ call = "findRoots"
    /\ intervals = <<>>
    /\ retval' = [tag |-> "None", val |-> <<>>]
    /\ pc' = "done"
    /\ UNCHANGED <<inputs, fates, scanVars, evals, scanCalls, roots, idx,
                   refineVars>>

\* `roots = []` and the first `for interval in intervals`
FindRootsBeginLoop ==
    /\ pc = "scan"
    /\ n >= cfg.intervalMaxSteps
    /\ call = "findRoots"
    /\ intervals # <<>>
    /\ roots' = <<>>
    /\ idx' = 1
    /\ pc' = "enter"
    /\ UNCHANGED <<inputs, fates, scanVars, evals, scanCalls, refineVars,
                   retval>>

(***************************************************************************)
(* _findRootInInterval.                                                    *)
(***************************************************************************)
\* mutant of Midpoint: half the width instead of the middle
HalfWidth(lo, hi) == RDiv(RSub(hi, lo), RInt(2))

\* bisection's midpoint: (a + b) / 2.0
Midpoint(lo, hi) == RDiv(RAdd(lo, hi), RInt(2))

\* Newton-Raphson's seed: x0 = interval.high
NewtonSeed(iv) == iv.high

\* the call, by the caller (pc = "idle") or by findRoots (pc = "enter"): the
\* assignments before the for loop
RefineEnter ==
    /\ \/ pc = "idle" /\ call = "findRootInInterval"
       \/ pc = "enter"
    /\ LET iv == IF pc = "idle" THEN arg ELSE intervals[idx]
       IN  /\ interval' = iv
           /\ a' = IF method = "bisection" THEN iv.low ELSE Zero
           /\ b' = IF method = "bisection" THEN iv.high ELSE Zero
           /\ x0' = CASE method = "bisection" -> Zero
                      [] method = "newtonRaphson" -> NewtonSeed(iv)
                      [] method = "secant" -> iv.low
           /\ x1' = CASE method = "bisection" -> Midpoint(iv.low, iv.high)
                      [] method = "newtonRaphson" -> Zero
                      [] method = "secant" -> iv.high
    /\ x2' = Zero
    /\ i' = 0
    /\ root' = None
    /\ steps' = <<>>
    /\ pc' = "refine"
    /\ UNCHANGED <<inputs, fates, scanVars, evals, scanCalls, roots, idx,
                   retval>>

\* the convergence test: abs(step) < self.rootTolerance
Converged(step) == RLt(step, cfg.rootTolerance)

\* the estimate returned on convergence in iteration i (0-based)
Estimate(r, k, e) == [root |-> r, iterations |-> k + 1, error |-> e]

\* mutant of MoveHigh: the sign test reversed
MoveHighReversed(f1) == RLt(f1, Zero)

\* bisection: which end the midpoint replaces: `if f1 > 0: b = x1 else: a = x1`
MoveHigh(f1) == RLt(Zero, f1)

\* bisection: one iteration of the for loop
BisectionStep ==
    /\ pc = "refine"
    /\ method = "bisection"
    /\ i < cfg.rootFindingMaximumIterations
    /\ LET mid == Midpoint(a, b)
           f1 == Func(func, mid)
           nb == IF MoveHigh(f1) THEN mid ELSE b
           na == IF MoveHigh(f1) THEN a ELSE mid
           width == RAbs(RSub(nb, na))
       IN  /\ x1' = mid
           /\ a' = na
           /\ b' = nb
           /\ steps' = Append(steps, width)
           /\ IF Converged(width)
              THEN /\ root' = Some(Estimate(mid, i, width))
                   /\ pc' = "refined"
                   /\ i' = i
              ELSE /\ root' = root
                   /\ pc' = pc
                   /\ i' = i + 1
    /\ evals' = evals + 1
    /\ UNCHANGED <<inputs, fates, scanVars, scanCalls, roots, idx, interval,
                   x0, x2, retval>>

\* Newton-Raphson: one iteration of the for loop; func(x0) / derivativeFunc(x0)
\* raises ZeroDivisionError when the derivative is 0, and nothing catches it
NewtonStep ==
    /\ pc = "refine"
    /\ method = "newtonRaphson"
    /\ i < cfg.rootFindingMaximumIterations
    /\ LET fx == Func(func, x0)
           dfx == Func(derivativeFunc, x0)
       IN  IF IsZero(dfx)
           THEN /\ pc' = "raised"
                /\ UNCHANGED <<x0, x1, i, root, steps>>
           ELSE LET nx == RSub(x0, RDiv(fx, dfx))
                    step == RAbs(RSub(nx, x0))
                IN  /\ x1' = nx
                    /\ steps' = Append(steps, step)
                    /\ IF Converged(step)
                       THEN /\ root' = Some(Estimate(nx, i, step))
                            /\ pc' = "refined"
                            /\ UNCHANGED <<x0, i>>
                       ELSE /\ x0' = nx
                            /\ i' = i + 1
                            /\ UNCHANGED <<root, pc>>
    /\ evals' = evals + 1
    /\ UNCHANGED <<inputs, fates, scanVars, scanCalls, roots, idx, interval,
                   a, b, x2, retval>>

\* mutant of Degenerate: the guard is missing
NeverDegenerate(f0, f1) == FALSE

\* secant: the guard `if func(x1) - func(x0) == 0: return None`
Degenerate(f0, f1) == IsZero(RSub(f1, f0))

\* secant: one iteration of the for loop
SecantStep ==
    /\ pc = "refine"
    /\ method = "secant"
    /\ i < cfg.rootFindingMaximumIterations
    /\ LET f0 == Func(func, x0)
           f1 == Func(func, x1)
       IN  IF Degenerate(f0, f1)
           THEN /\ root' = None
                /\ pc' = "refined"
                /\ evals' = evals + 2
                /\ UNCHANGED <<x0, x1, x2, i, steps>>
           ELSE IF IsZero(RSub(f1, f0))
           THEN \* the division of the update raises ZeroDivisionError
                /\ pc' = "raised"
                /\ evals' = evals + 5
                /\ UNCHANGED <<x0, x1, x2, i, root, steps>>
           ELSE LET nx == RSub(x1, RDiv(RMul(f1, RSub(x1, x0)), RSub(f1, f0)))
                    step == RAbs(RSub(nx, x1))
                IN  /\ x2' = nx
                    /\ steps' = Append(steps, step)
                    /\ evals' = evals + 5
                    /\ IF Converged(step)
                       THEN /\ root' = Some(Estimate(nx, i, step))
                            /\ pc' = "refined"
                            /\ UNCHANGED <<x0, x1, i>>
                       ELSE /\ x0' = x1
                            /\ x1' = nx
                            /\ i' = i + 1
                            /\ UNCHANGED <<root, pc>>
    /\ UNCHANGED <<inputs, fates, scanVars, scanCalls, roots, idx, interval,
                   a, b, retval>>

\* the for loop ends without convergence: `return None`
RefineExhausted ==
    /\ pc = "refine"
    /\ i >= cfg.rootFindingMaximumIterations
    /\ root' = None
    /\ pc' = "refined"
    /\ UNCHANGED <<inputs, fates, scanVars, evals, scanCalls, roots, idx,
                   interval, a, b, x0, x1, x2, i, steps, retval>>

\* a direct call of _findRootInInterval returns to the caller
RefineReturn ==
    /\ pc = "refined"
    /\ call = "findRootInInterval"
    /\ retval' = [tag |-> "root", val |-> root]
    /\ pc' = "done"
    /\ UNCHANGED <<inputs, fates, scanVars, evals, scanCalls, roots, idx,
                   refineVars>>

\* the result findRoots builds: Newton-Raphson's has no interval
Result(iv, r) ==
    IF method = "newtonRaphson"
    THEN [root |-> r]
    ELSE [interval |-> iv, root |-> r]

\* findRoots: `if root is not None: roots.append(...)`
Keep(r) == r # None

\* mutant of Collect: the result is put in front of the earlier ones
CollectInFront ==
    /\ pc = "refined"
    /\ call = "findRoots"
    /\ LET kept == IF Keep(root)
                   THEN <<Result(interval, root[1])>> \o roots
                   ELSE roots
       IN  /\ roots' = kept
           /\ fates' = Append(fates, root)
           /\ IF idx < Len(intervals)
              THEN /\ idx' = idx + 1
                   /\ pc' = "enter"
                   /\ retval' = retval
              ELSE /\ idx' = idx
                   /\ pc' = "done"
                   /\ retval' = [tag |-> "list", val |-> kept]
    /\ UNCHANGED <<inputs, scanVars, evals, scanCalls, refineVars>>

\* findRoots: the rest of the loop body, and the next interval or `return roots`
Collect ==
    /\ pc = "refined"
    /\ call = "findRoots"
    /\ LET kept == IF Keep(root)
                   THEN Append(roots, Result(interval, root[1]))
                   ELSE roots
       IN  /\ roots' = kept
           /\ fates' = Append(fates, root)
           /\ IF idx < Len(intervals)
              THEN /\ idx' = idx + 1
                   /\ pc' = "enter"
                   /\ retval' = retval
              ELSE /\ idx' = idx
                   /\ pc' = "done"
                   /\ retval' = [tag |-> "list", val |-> kept]
    /\ UNCHANGED <<inputs, scanVars, evals, scanCalls, refineVars>>

Next ==
    \/ FindIntervalsEnter
    \/ ScanStep
    \/ FindIntervalsReturn
    \/ FindRootsNoIntervals
    \/ FindRootsBeginLoop
    \/ RefineEnter
    \/ BisectionStep
    \/ NewtonStep
    \/ SecantStep
    \/ RefineExhausted
    \/ RefineReturn
    \/ Collect

Spec == Init /\ [][Next]_vars


(***************************************************************************)
(* Properties.                                                             *)
(***************************************************************************)
\* the i-th sample point of the scan, i = 0, 1, ...
SamplePoint(k) ==
    RAdd(cfg.intervalStartPoint, RMul(RInt(k), cfg.intervalStepSize))

\* f(x_k) * f(x_k + step)
SampleProduct(k) ==
    RMul(Func(func, SamplePoint(k)), Func(func, SamplePoint(k + 1)))

\* the steps of the scan whose pair of samples has a negative product
Bracketing ==
    {k \in 0..(cfg.intervalMaxSteps - 1) : RLt(SampleProduct(k), Zero)}

\* the scan has returned (to the caller, or to findRoots)
Scanned == call # "findRootInInterval" /\ pc \notin {"idle", "scan"}

\* C1: findIntervals returns exactly the intervals (x_k, x_k + step),
\* k in 0..intervalMaxSteps-1, with f(x_k) * f(x_k + step) < 0, in ascending
\* order of low and no others; a pair with product 0 is never emitted, and
\* every emitted interval has high = low + step.
C1_ScanExact ==
    Scanned =>
        /\ Len(intervals) = Cardinality(Bracketing)
        /\ {intervals[j].low : j \in 1..Len(intervals)}
              = {SamplePoint(k) : k \in Bracketing}
        /\ \A j \in 1..Len(intervals) :
              /\ intervals[j].high
                    = RAdd(intervals[j].low, cfg.intervalStepSize)
              /\ ~IsZero(RMul(Func(func, intervals[j].low),
                              Func(func, intervals[j].high)))
        /\ \A j \in 1..(Len(intervals) - 1) :
              RLt(intervals[j].low, intervals[j + 1].low)
        /\ (pc = "done" /\ call = "findIntervals") => retval.val = intervals

\* a scan that found a bracket and passed a root lying on a sample point
C1_Witness ==
    /\ pc = "done"
    /\ call = "findIntervals"
    /\ Len(retval.val) >= 1
    /\ \E k \in 0..(cfg.intervalMaxSteps - 1) : IsZero(SampleProduct(k))

\* C2 as stated: one scan with intervalMaxSteps = N calls func exactly N + 1
\* times.
C2_Original ==
    (pc = "done" /\ call = "findIntervals") =>
        evals = cfg.intervalMaxSteps + 1

\* C2 amended: one scan with intervalMaxSteps = N calls func exactly 2 * N
\* times, func(value) and func(nextValue) in each of the N iterations.
C2_ScanCost ==
    (pc = "done" /\ call = "findIntervals") =>
        evals = 2 * cfg.intervalMaxSteps

\* a finished scan of three steps or more
C2_Witness ==
    /\ pc = "done"
    /\ call = "findIntervals"
    /\ cfg.intervalMaxSteps >= 3
    /\ evals = 2 * cfg.intervalMaxSteps


\* the refinement under way, or just ended, and its settings
Tolerance == cfg.rootTolerance

MaxIterations == cfg.rootFindingMaximumIterations

\* the iterations whose step magnitude met the tolerance
ConvergedAt == {k \in 1..Len(steps) : RLt(steps[k], Tolerance)}

Least(S) == CHOOSE k \in S : \A m \in S : k <= m

\* a refinement has ended: it returned, or an exception left it
RefineEnded == pc \in {"refined", "raised"}

\* the secant refinement ended on its zero-denominator guard
SecantDegenerate ==
    /\ method = "secant"
    /\ pc = "refined"
    /\ root = None
    /\ Len(steps) < MaxIterations

\* C3 as stated: each refiner (secant: when no zero denominator occurs) does at
\* most maxIterations iterations and returns an estimate iff some iteration k
\* has step magnitude < tolerance; then iterations is the least such k and
\* error that iteration's step magnitude, 1 <= iterations <= maxIterations,
\* 0 <= error < tolerance; if there is no such k it returns None after exactly
\* maxIterations iterations.
C3_Original ==
    (RefineEnded /\ ~SecantDegenerate) =>
        /\ Len(steps) <= MaxIterations
        /\ (pc = "refined" /\ root # None) <=> (ConvergedAt # {})
        /\ root # None =>
              /\ root[1].iterations = Least(ConvergedAt)
              /\ root[1].error = steps[root[1].iterations]
              /\ 1 <= root[1].iterations
              /\ root[1].iterations <= MaxIterations
              /\ RLe(Zero, root[1].error)
              /\ RLt(root[1].error, Tolerance)
        /\ ConvergedAt = {} =>
              /\ pc = "refined"
              /\ root = None
              /\ Len(steps) = MaxIterations

\* C4 as stated: a zero derivative ends Newton-Raphson's refinement of the
\* bracket with a local failure and findRoots does not abort: no exception
\* leaves findRoots.
C4_Original ==
    (method = "newtonRaphson" /\ call = "findRoots") => pc # "raised"

\* the secant iteration about to run finds f(x1) = f(x0)
SecantAtDegenerate ==
    /\ pc = "refine"
    /\ method = "secant"
    /\ i < MaxIterations
    /\ Func(func, x1) = Func(func, x0)

ConstantNonzero(f) == f[2] = 0 /\ f[3] = 0 /\ f[1] # 0

\* C5: in the secant refiner an iteration with f(x1) = f(x0) fails at once: no
\* estimate, no division (no exception), no further iteration, and findRoots
\* goes on with the next bracket; for a constant nonzero f this is iteration 1.
C5_DegenerateSecant ==
    /\ [][SecantAtDegenerate =>
            /\ pc' = "refined"
            /\ root' = None
            /\ <<x0, x1, x2, i, steps>>' = <<x0, x1, x2, i, steps>>]_vars
    /\ [][(SecantDegenerate /\ call = "findRoots") =>
            /\ roots' = roots
            /\ pc' = IF idx < Len(intervals) THEN "enter" ELSE "done"]_vars
    /\ []((/\ method = "secant"
            /\ call = "findRootInInterval"
            /\ ConstantNonzero(func)
            /\ pc # "idle") =>
            /\ pc \in {"refine", "refined", "done"}
            /\ steps = <<>>
            /\ i = 0
            /\ root = None)

\* a findRoots run of the secant finder in which the guard has just ended the
\* refinement of a bracket, in its second iteration or later, with another
\* bracket still to refine
C5_Witness ==
    /\ SecantDegenerate
    /\ call = "findRoots"
    /\ Len(steps) >= 1
    /\ idx < Len(intervals)

\* the brackets whose refinement returned an estimate, by position
Kept == {j \in 1..Len(fates) : fates[j] # None}

\* the position among the brackets of the m-th kept one
KeptAt(m) == CHOOSE j \in Kept : Cardinality({k \in Kept : k <= j}) = m

RECURSIVE Pow2(_)
Pow2(k) == IF k <= 0 THEN 1 ELSE 2 * Pow2(k - 1)

\* 2^m as a rational, m an integer
Pow2R(m) == IF m >= 0 THEN <<Pow2(m), 1>> ELSE <<1, Pow2(-m)>>

\* ceil(log2(q)) and floor(log2(q)) of a rational q with 2^-12 < q <= 2^12
CeilLog2(q) ==
    CHOOSE m \in (-12)..12 : RLe(q, Pow2R(m)) /\ RLt(Pow2R(m - 1), q)

FloorLog2(q) ==
    CHOOSE m \in (-12)..12 : RLe(Pow2R(m), q) /\ RLt(q, Pow2R(m + 1))

Max(m, k) == IF m >= k THEN m ELSE k

\* the width of the bracket being refined, and its ratio to the tolerance
Width0 == RSub(interval.high, interval.low)

Ratio == RDiv(Width0, Tolerance)

InBisection == method = "bisection" /\ pc \in {"refine", "refined"}

\* |b - a| after iteration k is (high - low) / 2^k, for every iteration done
Halved ==
    /\ \A k \in 1..Len(steps) : RMul(steps[k], RInt(Pow2(k))) = Width0
    /\ RMul(RAbs(RSub(b, a)), RInt(Pow2(Len(steps)))) = Width0

\* C7 as stated: in bisection |b - a| after iteration k is (high - low) / 2^k,
\* and convergence is reported after at most
\* ceil(log2((high - low) / tolerance)) iterations.
C7_Original ==
    InBisection =>
        /\ Halved
        /\ root # None => root[1].iterations <= CeilLog2(Ratio)

\* the most iterations bisection needs: the least k >= 1 with
\* (high - low) / 2^k < tolerance
BisectionBound == Max(1, FloorLog2(Ratio) + 1)

\* C7 amended: in bisection |b - a| after iteration k is (high - low) / 2^k,
\* and convergence is reported after at most
\* max(1, floor(log2((high - low) / tolerance)) + 1) iterations, and is
\* reported whenever maxIterations is at least that.
C7_Halving ==
    InBisection =>
        /\ Halved
        /\ root # None => root[1].iterations <= BisectionBound
        /\ (pc = "refined" /\ MaxIterations >= BisectionBound) => root # None

\* a bisection that converged in its third iteration, having moved both ends
C7_Witness ==
    /\ InBisection
    /\ root # None
    /\ root[1].iterations >= 3
    /\ a # interval.low
    /\ b # interval.high

\* findRoots has ended: it returned, or an exception left it
FindRootsEnded == call = "findRoots" /\ pc \in {"done", "raised"}

\* C8 as stated: findRoots calls the scan exactly once and returns None iff the
\* scan found no bracket, and then refines nothing; with one bracket or more
\* it returns a sequence (possibly empty), never None.
C8_Original ==
    FindRootsEnded =>
        /\ scanCalls = 1
        /\ (retval.tag = "None") <=> (intervals = <<>>)
        /\ intervals = <<>> => (fates = <<>> /\ interval = NoInterval)
        /\ intervals # <<>> => retval.tag = "list"

RMax(x, y) == IF RLt(x, y) THEN y ELSE x

RMin(x, y) == IF RLt(x, y) THEN x ELSE y

\* the polynomial f of degree <= 2 has a root in [l, u], l <= u: its values at
\* the ends differ in sign or one is 0, or its vertex lies in [l, u] with a
\* value of the other sign than f(l), or 0
HasRootIn(f, l, u) ==
    \/ RLe(RMul(Func(f, l), Func(f, u)), Zero)
    \/ /\ f[3] # 0
       /\ LET v == R(-f[2], 2 * f[3])
          IN  /\ RLe(l, v)
              /\ RLe(v, u)
              /\ RLe(RMul(Func(f, v), Func(f, l)), Zero)

\* f falls through 0 in the bracket: f(low) > 0 > f(high)
DecreasingBracket ==
    /\ RLt(Zero, Func(func, interval.low))
    /\ RLt(Func(func, interval.high), Zero)

\* f rises through 0 in the bracket: f(low) < 0 < f(high)
IncreasingBracket ==
    /\ RLt(Func(func, interval.low), Zero)
    /\ RLt(Zero, Func(func, interval.high))

\* C9 as stated: bisection on a bracket with f(low) > 0 > f(high) still
\* converges to a root: the value it reports lies within the final width
\* (< tolerance) of a root of f inside the bracket.
C9_Original ==
    (InBisection /\ DecreasingBracket /\ root # None) =>
        HasRootIn(func,
                  RMax(interval.low, RSub(root[1].root, root[1].error)),
                  RMin(interval.high, RAdd(root[1].root, root[1].error)))

Within(x, l, u) == RLe(l, x) /\ RLe(x, u)

\* C10: in bisection, after every iteration low <= a < b <= high and the
\* midpoint, hence a reported root, lies in [low, high]; when
\* f(low) < 0 < f(high), f(a) <= 0 < f(b) as well.
C10_Enclosure ==
    InBisection =>
        /\ RLe(interval.low, a)
        /\ RLt(a, b)
        /\ RLe(b, interval.high)
        /\ Within(x1, interval.low, interval.high)
        /\ root # None =>
              Within(root[1].root, interval.low, interval.high)
        /\ IncreasingBracket =>
              /\ RLe(Func(func, a), Zero)
              /\ RLt(Zero, Func(func, b))

\* a bisection of a rising bracket, three iterations on, both ends moved
C10_Witness ==
    /\ InBisection
    /\ IncreasingBracket
    /\ Len(steps) >= 3
    /\ a # interval.low
    /\ b # interval.high

====
